---- MODULE Spec2Model ----
(***************************************************************************)
(* Model of @le-space/orbitdb-simple-encryption (src/src/index.js):        *)
(*   - SimpleEncryption({ password }): the encryption-object factory with  *)
(*     its per-object call counter `count`, and its encrypt / decrypt;     *)
(*   - the AES-GCM/PBKDF2 engine AES() that index.js imports from          *)
(*     ./aes-gcm-pbkdf2.js, modelled symbolically from the specification;  *)
(*   - isDatabaseEncrypted(db): the encrypted-database detector.           *)
(***************************************************************************)
EXTENDS Naturals, Sequences, FiniteSets

VARIABLES
    alive,      \* alive[o]: SimpleEncryption returned object o
    password,   \* password[o]: the password captured by o's closure
    count,      \* count[o]: `let count = 0` of o's closure
    ivInterval, \* ivInterval[o]: the ivInterval property of object o
    calls,      \* the aes.encrypt calls made so far, in call order: `arg` is
                \* what encrypt was given, the rest what the engine was handed
    last,       \* outcome of the most recent SimpleEncryption(...), decrypt(...)
                \* or rejected encrypt(...); accepted encrypts are in `calls`
    dbRead,     \* what db.all() does for the handle given to the detector
    detPc,      \* position of isDatabaseEncrypted
    all,        \* `let all` of isDatabaseEncrypted
    verdict     \* what isDatabaseEncrypted returned

factoryVars == <<alive, password, count, ivInterval, calls, last>>
detectorVars == <<dbRead, detPc, all, verdict>>
vars == <<alive, password, count, ivInterval, calls, last,
          dbRead, detPc, all, verdict>>

(***************************************************************************)
(* Bounds of the model.                                                    *)
(***************************************************************************)
MaxCalls == 2       \* aes.encrypt calls made in one behaviour of Spec
MaxNonceCalls == 3  \* aes.encrypt calls made in one behaviour of NonceSpec
MaxArgCalls == 1    \* aes.encrypt calls made in one behaviour of ArgSpec
MaxEntries == 2     \* entries db.all() returns
MaxMsgLen == 3      \* tokens in a thrown error's message

Objs == {"A", "B"}

(***************************************************************************)
(* JavaScript values.  `subarray` is what `value.subarray` evaluates to    *)
(* for the value, by truthiness; `data` the value's content; `sealed` the  *)
(* envelope a byte sequence holds when it is an output of the engine.      *)
(***************************************************************************)
JsValue(t, s, d) == [type |-> t, subarray |-> s, data |-> d, sealed |-> <<>>]

Undefined == JsValue("undefined", "absent", <<>>)
Null == JsValue("null", "absent", <<>>)
Str(s) == JsValue("string", "absent", s)
Num(n) == JsValue("number", "absent", <<n>>)
PlainObject == JsValue("object", "absent", <<>>)
FalsySubarrayObject == JsValue("object", "falsy", <<>>)
DuckObject == JsValue("object", "truthy", <<>>)
Bytes(b) == JsValue("Uint8Array", "truthy", b)

IsByteSequence(v) == v.type = "Uint8Array"

\* Mutant: the check asks only whether a subarray property is there.
HasSubarrayLoose(v) == v.subarray # "absent"

\* `value?.subarray` is truthy: false for null and undefined (optional
\* chaining), for primitives, and for objects whose subarray is absent or falsy.
HasSubarray(v) == v.subarray = "truthy"

Plaintexts == {<<>>, <<2, 1>>}
NonBytes == {Undefined, Null, Str(<<1>>), Num(5), PlainObject, FalsySubarrayObject}
ValidPasswords == {Str(<<>>), Str(<<104, 105>>), Bytes(<<7>>), DuckObject}
InvalidPasswords == {Undefined, Null, Num(0), Num(5), PlainObject, FalsySubarrayObject}

\* Placeholder for "no value" in fields that hold a JavaScript value.
None == JsValue("none", "absent", <<>>)

(***************************************************************************)
(* The engine AES() of ./aes-gcm-pbkdf2.js, modelled symbolically: a key   *)
(* is the term kdf(password), a ciphertext body the term enc(key, nonce,   *)
(* plaintext), a tag the term mac(key, nonce, body).  An envelope is       *)
(* tag + nonce + body.                                                     *)
(***************************************************************************)
IvInterval == 2

DeriveKey(pw) == [kdf |-> pw]

AesCipher(key, nonce, plain) == [k |-> key, n |-> nonce, p |-> plain]

AesTag(key, nonce, body) == [k |-> key, n |-> nonce, b |-> body]

AesSeal(key, nonce, plain) ==
    LET body == AesCipher(key, nonce, plain)
    IN  [tag |-> AesTag(key, nonce, body), nonce |-> nonce, body |-> body]

\* The engine works on a string or byte-sequence password only.
AesUsablePassword(pw) == pw.type \in {"string", "Uint8Array"}

\* The values a random component can take. A draw is any of them: two
\* draws can give the same value.
RandomSpace == {"r1", "r2"}

\* The random component mixed into the nonce of a call. The engine keeps no
\* state and how the component is come by is left open, so a call can get
\* any value, whether its counter is on an interval boundary or not and
\* whatever the calls before it got.
AesIvChoices(counter) == RandomSpace

\* The nonce: the random component, and the counter's low-order value, which
\* tells apart the calls of one interval.
AesNonce(rnd, counter) == [rnd |-> rnd, ctr |-> counter % IvInterval]

\* aes.encrypt's result once its work completes: "ok" with the envelope, or
\* "failed".  `fault` is an internal crypto failure.
AesEncryptOutcome(plaintext, pw, nonce, fault) ==
    IF IsByteSequence(plaintext) /\ AesUsablePassword(pw) /\ ~fault
    THEN [status |-> "ok",
          out |-> [Bytes(<<>>) EXCEPT
                       !.sealed = <<AesSeal(DeriveKey(pw), nonce, plaintext.data)>>]]
    ELSE [status |-> "failed", out |-> None]

\* aes.decrypt(value, password): the plaintext, or a decryption failure for a
\* malformed envelope or a tag that does not verify under the derived key.
AesDecrypt(value, pw) ==
    IF ~IsByteSequence(value) \/ ~AesUsablePassword(pw) \/ value.sealed = <<>>
    THEN [outcome |-> "engine-failure", value |-> None]
    ELSE LET env == value.sealed[1]
             key == DeriveKey(pw)
         IN  IF env.tag = AesTag(key, env.nonce, env.body)
                    /\ env.body.k = key /\ env.body.n = env.nonce
             THEN [outcome |-> "returned", value |-> Bytes(env.body.p)]
             ELSE [outcome |-> "engine-failure", value |-> None]

(***************************************************************************)
(* SimpleEncryption({ password }) and the object it returns.               *)
(***************************************************************************)
\* Mutant: `!password` in place of `password == null`.
PasswordRejectedFalsy(pw) ==
    \/ pw.type \in {"undefined", "null"}
    \/ (pw.type = "string" /\ pw.data = <<>>)
    \/ (pw.type = "number" /\ pw.data = <<0>>)
    \/ (pw.type # "string" /\ pw.subarray # "truthy")

\* The guard of line 9: password == null, or neither a string nor a value
\* with a truthy subarray.
PasswordRejected(pw) ==
    \/ pw.type \in {"undefined", "null"}
    \/ (pw.type # "string" /\ ~HasSubarray(pw))

\* The object literal returned at lines 31-35.
EncryptionObjectKeys == {"encrypt", "decrypt", "ivInterval"}

Outcome(op, o, arg, outcome, value) ==
    [op |-> op, obj |-> o, arg |-> arg, outcome |-> outcome, value |-> value]

SimpleEncryption(o, pw) ==
    /\ ~alive[o]
    /\ IF PasswordRejected(pw)
       THEN /\ last' = Outcome("SimpleEncryption", o, pw, "invalid-argument", None)
            /\ UNCHANGED <<alive, password, count, ivInterval>>
       ELSE /\ alive' = [alive EXCEPT ![o] = TRUE]
            /\ password' = [password EXCEPT ![o] = pw]
            /\ count' = [count EXCEPT ![o] = 0]
            /\ ivInterval' = [ivInterval EXCEPT ![o] = IvInterval]
            /\ last' = Outcome("SimpleEncryption", o, pw, "returned", None)
    /\ UNCHANGED calls
    /\ UNCHANGED detectorVars

\* Mutant: the password is held outside the closure, shared by the objects.
SharedPassword(o) == password["A"]

\* The password a method of object o reads: the one its own closure captured.
ClosurePassword(o) == password[o]

\* Mutant: aes.encrypt(password, value, count++).
EncryptArgsSwapped(o, value) ==
    [plaintext |-> ClosurePassword(o), password |-> value, counter |-> count[o]]

\* Mutant: aes.encrypt(value, password, ++count).
EncryptArgsPreIncrement(o, value) ==
    [plaintext |-> value, password |-> ClosurePassword(o), counter |-> count[o] + 1]

\* The arguments of aes.encrypt(value, password, count++): the counter
\* argument is the value of count before the increment.
EncryptArgs(o, value) ==
    [plaintext |-> value, password |-> ClosurePassword(o), counter |-> count[o]]

\* Mutant: `count` in place of `count++`.
CountNotIncremented(c) == c

\* count after `count++`.
CountAfterEncrypt(c) == c + 1

\* Mutant: one count for the module, shared by every object.
CountUpdateShared(o) == [x \in Objs |-> CountAfterEncrypt(count[x])]

\* `let count` of line 15 is a variable of the closure of one
\* SimpleEncryption call: `count++` writes the count of that object alone.
CountUpdate(o) == [count EXCEPT ![o] = CountAfterEncrypt(count[o])]

encrypt(o, value) ==
    /\ alive[o]
    /\ IF ~HasSubarray(value)
       THEN /\ last' = Outcome("encrypt", o, value, "invalid-argument", None)
            /\ UNCHANGED <<count, calls>>
       ELSE LET args == EncryptArgs(o, value)
            IN  \E rnd \in AesIvChoices(args.counter) :
                /\ count' = CountUpdate(o)
                /\ calls' = Append(calls,
                       [obj |-> o, arg |-> value, plaintext |-> args.plaintext,
                        password |-> args.password, counter |-> args.counter,
                        nonce |-> AesNonce(rnd, args.counter),
                        status |-> "pending", out |-> None])
                /\ UNCHANGED last
    /\ UNCHANGED <<alive, password, ivInterval>>
    /\ UNCHANGED detectorVars

\* The engine completes the work of a pending aes.encrypt call; the promise
\* encrypt returned settles.
AesEncryptSettle(i, fault) ==
    /\ calls[i].status = "pending"
    /\ LET c == calls[i]
           r == AesEncryptOutcome(c.plaintext, c.password, c.nonce, fault)
       IN  calls' = [calls EXCEPT ![i].status = r.status, ![i].out = r.out]
    /\ UNCHANGED <<alive, password, count, ivInterval, last>>
    /\ UNCHANGED detectorVars

\* Mutant: aes.decrypt(password, value).
DecryptArgsSwapped(o, value) == [ciphertext |-> ClosurePassword(o), password |-> value]

\* The arguments of aes.decrypt(value, password).
DecryptArgs(o, value) == [ciphertext |-> value, password |-> ClosurePassword(o)]

decrypt(o, value) ==
    /\ alive[o]
    /\ IF ~HasSubarray(value)
       THEN last' = Outcome("decrypt", o, value, "invalid-argument", None)
       ELSE LET args == DecryptArgs(o, value)
                r == AesDecrypt(args.ciphertext, args.password)
            IN  last' = Outcome("decrypt", o, value, r.outcome, r.value)
    /\ UNCHANGED <<alive, password, count, ivInterval, calls>>
    /\ UNCHANGED detectorVars

(***************************************************************************)
(* isDatabaseEncrypted(db).                                                *)
(***************************************************************************)
\* What `await db.all()` does: it throws `error`, or returns `result`.
\*   kind "throws":   error = [isTypeError, message], message a token sequence
\*   kind "returns":  result is the array `entries`
\*   result is not an array:
\*   kind "nullish":   undefined or null, so all.length throws
\*   kind "emptylike": a value whose length is 0 ('' or { length: 0 })
\*   kind "noevery":   a value whose length is not 0 and that has no every
\*                     method (a number, a plain object), so all.every throws
\*   kind "ownevery":  an object whose length is not 0, with an every method
\*                     of its own that returns a value that is no boolean
\*   kind "nohandle": db is null or undefined, so evaluating db.all throws a
\*                    TypeError "Cannot read properties of undefined (reading 'all')"
DbRead(kind, error, entries) == [kind |-> kind, error |-> error, entries |-> entries]

MsgTokens == {"reading", "'value'", "'all'"}

RECURSIVE SeqsUpTo(_, _)
SeqsUpTo(S, n) ==
    IF n = 0 THEN {<<>>}
    ELSE LET shorter == SeqsUpTo(S, n - 1)
         IN  shorter \cup {Append(q, x) : q \in shorter, x \in S}

Messages == SeqsUpTo(MsgTokens, MaxMsgLen)
Errors == [isTypeError : BOOLEAN, message : Messages]
NoError == [isTypeError |-> FALSE, message |-> <<>>]

\* An index of the result array: an object with its hash and value fields, a
\* null / undefined element, or a hole (an index below all.length that holds
\* no element, as in new Array(2)).
Entries == [nullish : {FALSE}, hole : {FALSE}, hash : {"present", "undefined"},
            value : {"present", "undefined"}]
               \cup {[nullish |-> TRUE, hole |-> FALSE,
                      hash |-> "undefined", value |-> "undefined"]}
               \cup {[nullish |-> FALSE, hole |-> TRUE,
                      hash |-> "undefined", value |-> "undefined"]}
EntryLists == SeqsUpTo(Entries, MaxEntries)

NoRead == DbRead("none", NoError, <<>>)
NoHandleError == [isTypeError |-> TRUE, message |-> <<"reading", "'all'">>]

NonListKinds == {"nullish", "emptylike", "noevery", "ownevery"}

DbReads ==
    {DbRead("throws", e, <<>>) : e \in Errors}
        \cup {DbRead("returns", NoError, es) : es \in EntryLists}
        \cup {DbRead(k, NoError, <<>>) : k \in NonListKinds}
        \cup {DbRead("nohandle", NoError, <<>>)}

\* /reading 'value'/.test(msg): the pattern occurs somewhere in msg.
MatchesReadingValue(msg) ==
    \E i \in 1..Len(msg) :
        i + 1 <= Len(msg) /\ msg[i] = "reading" /\ msg[i + 1] = "'value'"

\* Mutant: the message is tested, the error's type is not.
ReadErrorVerdictAnyError(error) ==
    IF MatchesReadingValue(error.message) THEN "true" ELSE "false"

\* The catch block of lines 71-83: true for a TypeError whose message
\* matches, false for any other error.
ReadErrorVerdict(error) ==
    LET msg == error.message
    IN  IF error.isTypeError /\ MatchesReadingValue(msg) THEN "true" ELSE "false"

\* Mutant: `||` in place of `&&` in the callback.
EntryTestEither(entry) ==
    IF entry.nullish THEN "throws"
    ELSE IF entry.hash # "undefined" \/ entry.value = "undefined" THEN "true"
    ELSE "false"

\* The callback of all.every at lines 95-97; "throws" for an element whose
\* fields cannot be read.
EntryTest(entry) ==
    IF entry.nullish THEN "throws"
    ELSE IF entry.hash # "undefined" /\ entry.value = "undefined" THEN "true"
    ELSE "false"

\* Array.prototype.every: the indices in order, the callback called for the
\* elements only (a hole is skipped), stopping at the first element whose
\* test is not true.
RECURSIVE Every(_)
Every(es) ==
    IF es = <<>> THEN "true"
    ELSE IF Head(es).hole THEN Every(Tail(es))
    ELSE LET t == EntryTest(Head(es))
         IN  IF t = "true" THEN Every(Tail(es)) ELSE t

\* The outer try/catch of lines 66 and 100-104 around a computation that
\* yields r: a throw becomes false, a value is returned as it is.
OuterCatch(r) == IF r = "throws" THEN "false" ELSE r

\* Mutant: no test for the empty array.
EntriesVerdictNoEmptyCheck(es) ==
    LET hasEntriesWithUndefinedValues == Every(es)
    IN  OuterCatch(hasEntriesWithUndefinedValues)

\* Lines 88-99 for an array result; all.length counts the holes too.
EntriesVerdict(es) ==
    IF Len(es) = 0 THEN "false"
    ELSE LET hasEntriesWithUndefinedValues == Every(es)
         IN  OuterCatch(hasEntriesWithUndefinedValues)

\* Lines 88-99 for a result that is not an array: all.length, then
\* all.every(...), whose value is returned.
NonListVerdict(kind) ==
    IF kind = "nullish" THEN OuterCatch("throws")
    ELSE IF kind = "emptylike" THEN "false"
    ELSE IF kind = "noevery" THEN OuterCatch("throws")
    ELSE OuterCatch("non-boolean")

\* isDatabaseEncrypted up to its await: db.all() is called and the function
\* is suspended on the promise.
DetectorAwaitAll ==
    /\ detPc = "idle"
    /\ dbRead.kind # "none"
    /\ detPc' = "awaiting"
    /\ UNCHANGED <<dbRead, all, verdict>>
    /\ UNCHANGED factoryVars

\* The rest of isDatabaseEncrypted once the read has thrown or returned.
DetectorResume ==
    /\ detPc = "awaiting"
    /\ detPc' = "done"
    /\ \/ /\ dbRead.kind = "throws"
          /\ verdict' = ReadErrorVerdict(dbRead.error)
          /\ UNCHANGED all
       \/ /\ dbRead.kind = "nohandle"
          /\ verdict' = ReadErrorVerdict(NoHandleError)
          /\ UNCHANGED all
       \/ /\ dbRead.kind = "returns"
          /\ all' = dbRead
          /\ verdict' = EntriesVerdict(dbRead.entries)
       \/ /\ dbRead.kind \in NonListKinds
          /\ all' = dbRead
          /\ verdict' = NonListVerdict(dbRead.kind)
    /\ UNCHANGED dbRead
    /\ UNCHANGED factoryVars

\* The envelopes encrypt has returned so far.
Outputs == {calls[i].out : i \in {j \in 1..Len(calls) : calls[j].status = "ok"}}

NoOutcome == Outcome("none", "A", None, "none", None)

\* An accepted encrypt is one more aes.encrypt call: the model stops making
\* them at `cap`.
CanCall(cap, value) == HasSubarray(value) => Len(calls) < cap

FactoryInit ==
    /\ alive = [o \in Objs |-> FALSE]
    /\ password = [o \in Objs |-> None]
    /\ count = [o \in Objs |-> 0]
    /\ ivInterval = [o \in Objs |-> None]
    /\ calls = <<>>
    /\ last = NoOutcome

DetectorIdle ==
    /\ dbRead = NoRead
    /\ detPc = "idle"
    /\ all = NoRead
    /\ verdict = "none"

Init == FactoryInit /\ DetectorIdle

(***************************************************************************)
(* Spec: the factory and the engine over a few calls, with two usable      *)
(* passwords, two plaintexts, and raw bytes that are no envelope.          *)
(***************************************************************************)
CorePasswords == {Str(<<104, 105>>), Bytes(<<7>>)}
CoreEncryptInputs == {Bytes(p) : p \in Plaintexts}
CoreDecryptInputs == {Bytes(<<1>>)} \cup Outputs

Next ==
    \/ \E o \in Objs : \E pw \in CorePasswords : SimpleEncryption(o, pw)
    \/ \E o \in Objs : \E v \in CoreEncryptInputs : CanCall(MaxCalls, v) /\ encrypt(o, v)
    \/ \E i \in 1..Len(calls) : AesEncryptSettle(i, FALSE)
    \/ \E o \in Objs : \E v \in CoreDecryptInputs : decrypt(o, v)

Spec == Init /\ [][Next]_vars

(***************************************************************************)
(* NonceSpec: construction and encrypt calls alone, over enough calls for  *)
(* an object's counter to pass an interval boundary.                       *)
(***************************************************************************)
NonceNext ==
    \/ \E o \in Objs : \E pw \in CorePasswords : SimpleEncryption(o, pw)
    \/ \E o \in Objs : \E v \in CoreEncryptInputs : CanCall(MaxNonceCalls, v) /\ encrypt(o, v)
    \/ \E i \in 1..Len(calls) : AesEncryptSettle(i, FALSE)

NonceSpec == Init /\ [][NonceNext]_vars

(***************************************************************************)
(* ArgSpec: the same operations over every kind of password and argument,  *)
(* and with the engine's internal failures, over few calls.                *)
(***************************************************************************)
EncryptInputs == NonBytes \cup {DuckObject} \cup {Bytes(p) : p \in Plaintexts}
DecryptInputs == NonBytes \cup {DuckObject, Bytes(<<1>>)} \cup Outputs

ArgNext ==
    \/ \E o \in Objs : \E pw \in ValidPasswords \cup InvalidPasswords : SimpleEncryption(o, pw)
    \/ \E o \in Objs : \E v \in EncryptInputs : CanCall(MaxArgCalls, v) /\ encrypt(o, v)
    \/ \E i \in 1..Len(calls) : \E fault \in BOOLEAN : AesEncryptSettle(i, fault)
    \/ \E o \in Objs : \E v \in DecryptInputs : decrypt(o, v)

ArgSpec == Init /\ [][ArgNext]_vars

(***************************************************************************)
(* DetectorSpec: isDatabaseEncrypted on every read outcome within bounds.  *)
(***************************************************************************)
DetectorInit ==
    /\ FactoryInit
    /\ dbRead \in DbReads
    /\ detPc = "idle"
    /\ all = NoRead
    /\ verdict = "none"

DetectorNext == DetectorAwaitAll \/ DetectorResume

DetectorSpec == DetectorInit /\ [][DetectorNext]_vars

(***************************************************************************)
(* Properties.                                                             *)
(***************************************************************************)
CallIndices == 1..Len(calls)

\* The object's password as SimpleEncryption was given it.
BuiltWith(o) == password[o]

\* C1 (round-trip): whenever decrypt is applied to an envelope that encrypt
\* returned for plaintext p on an object built with password k, by an object
\* built with the same k (the same object or another one, whatever the
\* counter was), it returns exactly p.
RoundTrip ==
    last.op = "decrypt" =>
        \A i \in CallIndices :
            (calls[i].status = "ok" /\ last.arg = calls[i].out
                 /\ BuiltWith(last.obj) = BuiltWith(calls[i].obj))
                => (last.outcome = "returned" /\ last.value = calls[i].arg)

\* Another object with the same password decrypts a non-empty plaintext that
\* was encrypted at a counter above 0.
RoundTripWitness ==
    /\ last.op = "decrypt" /\ last.outcome = "returned"
    /\ \E i \in CallIndices :
           /\ calls[i].status = "ok" /\ last.arg = calls[i].out
           /\ calls[i].obj # last.obj /\ BuiltWith(last.obj) = BuiltWith(calls[i].obj)
           /\ calls[i].counter > 0 /\ calls[i].arg = Bytes(<<2, 1>>)
           /\ last.value = Bytes(<<2, 1>>)

\* C2 (wrong-password rejection): whenever decrypt is applied, by an object
\* built with k2, to an envelope encrypt returned on an object built with
\* k1 # k2, it fails with the engine's decryption failure and returns no
\* plaintext.
WrongPasswordRejected ==
    last.op = "decrypt" =>
        \A i \in CallIndices :
            (calls[i].status = "ok" /\ last.arg = calls[i].out
                 /\ BuiltWith(last.obj) # BuiltWith(calls[i].obj))
                => (last.outcome = "engine-failure" /\ last.value = None)

WrongPasswordWitness ==
    /\ last.op = "decrypt" /\ last.outcome = "engine-failure"
    /\ \E i \in CallIndices :
           /\ calls[i].status = "ok" /\ last.arg = calls[i].out
           /\ BuiltWith(calls[i].obj) = Str(<<104, 105>>)
           /\ BuiltWith(last.obj) = Bytes(<<7>>)

Interval(counter) == counter \div IvInterval

EarlierCalls(i) == {j \in CallIndices : j < i /\ calls[j].obj = calls[i].obj}

CounterHanded ==
    /\ \A i \in CallIndices : calls[i].counter = Cardinality(EarlierCalls(i))
    /\ \A o \in Objs :
           count[o] = Cardinality({i \in CallIndices : calls[i].obj = o})
    /\ \A i, j \in CallIndices :
           (i # j /\ calls[i].obj = calls[j].obj) => calls[i].counter # calls[j].counter

\* Two calls on one object are pending together, handed 0 and 1.
CounterHandedWitness ==
    \E i, j \in CallIndices :
        /\ i < j /\ calls[i].obj = calls[j].obj
        /\ calls[i].status = "pending" /\ calls[j].status = "pending"
        /\ calls[i].counter = 0 /\ calls[j].counter = 1
        /\ count[calls[i].obj] = 2

\* C5 (a failed encrypt never increments the counter), as claimed: once the
\* engine has failed the latest encrypt call made on an object, the object's
\* counter is what it was before that call.
LaterCalls(i) == {j \in CallIndices : j > i /\ calls[j].obj = calls[i].obj}

FailedEncryptKeepsCounter ==
    \A i \in CallIndices :
        (calls[i].status = "failed" /\ LaterCalls(i) = {})
            => count[calls[i].obj] = calls[i].counter

\* C6 (argument validation), as claimed: encrypt and decrypt reject every
\* value that is not a byte sequence, and the engine is never handed one.
NonByteSequenceRejected ==
    /\ (last.op \in {"encrypt", "decrypt"} /\ last.arg.type # "Uint8Array")
           => last.outcome = "invalid-argument"
    /\ \A i \in CallIndices : calls[i].arg.type = "Uint8Array"

\* C6, amended: encrypt and decrypt reject exactly the values without a
\* truthy subarray property (null, undefined, strings, numbers, objects that
\* lack it or hold a falsy one), the engine is never handed one of them, and
\* no byte sequence is rejected.
LacksSubarray(v) ==
    \/ v.type \in {"undefined", "null", "string", "number"}
    \/ (v.type = "object" /\ v.subarray \in {"absent", "falsy"})

ArgumentValidation ==
    /\ last.op \in {"encrypt", "decrypt"} =>
           (last.outcome = "invalid-argument" <=> LacksSubarray(last.arg))
    /\ \A i \in CallIndices : ~LacksSubarray(calls[i].arg)
    /\ last.outcome = "invalid-argument" => last.arg.type # "Uint8Array"

\* decrypt rejected an object whose subarray is falsy, after encrypt
\* accepted a byte sequence.
ArgumentValidationWitness ==
    /\ last.op = "decrypt" /\ last.arg = FalsySubarrayObject
    /\ last.outcome = "invalid-argument"
    /\ calls # <<>> /\ calls[1].arg.type = "Uint8Array"

\* C7 (construction validation): SimpleEncryption fails with invalid-argument
\* and returns no object when the password is undefined, null, or neither a
\* string nor a value with a subarray; for every string, the empty one
\* included, and every such value it returns an object with encrypt, decrypt
\* and ivInterval, bound to that password.
ObjectKeys(o) == IF alive[o] THEN EncryptionObjectKeys ELSE {}

ConstructionValidation ==
    last.op = "SimpleEncryption" =>
        IF \/ last.arg.type \in {"undefined", "null"}
           \/ (last.arg.type # "string" /\ last.arg.subarray # "truthy")
        THEN last.outcome = "invalid-argument" /\ ~alive[last.obj]
                 /\ ObjectKeys(last.obj) = {}
        ELSE last.outcome = "returned" /\ alive[last.obj]
                 /\ ObjectKeys(last.obj) = {"encrypt", "decrypt", "ivInterval"}
                 /\ password[last.obj] = last.arg

\* One object was built with the empty string; building the other with a
\* number was refused.
ConstructionValidationWitness ==
    /\ alive["A"] /\ password["A"] = Str(<<>>) /\ ~alive["B"]
    /\ last.op = "SimpleEncryption" /\ last.obj = "B" /\ last.arg = Num(0)
    /\ last.outcome = "invalid-argument"

\* C8 (detector, non-empty read): on a read that returned one or more
\* entries, the verdict is true if and only if every entry has a hash and an
\* undefined value. The entries are the elements the array holds: an index
\* without an element is no entry.
EntriesOf(es) == {k \in 1..Len(es) : ~es[k].hole}

AllEntriesEncrypted(es) ==
    \A k \in EntriesOf(es) :
        ~es[k].nullish /\ es[k].hash = "present" /\ es[k].value = "undefined"

DetectorNonEmpty ==
    (detPc = "done" /\ dbRead.kind = "returns" /\ EntriesOf(dbRead.entries) # {})
        => /\ verdict \in {"true", "false"}
           /\ verdict = "true" <=> AllEntriesEncrypted(dbRead.entries)

DetectorNonEmptyWitness ==
    /\ detPc = "done" /\ dbRead.kind = "returns"
    /\ EntriesOf(dbRead.entries) = {1, 2}
    /\ AllEntriesEncrypted(dbRead.entries) /\ verdict = "true"

\* C9 (detector, failed read): when the read throws, the verdict is true
\* exactly when the error is a TypeError whose message contains
\* "reading 'value'", and false for every other error.
ContainsReadingValue(m) ==
    \E i \in 1..Len(m) :
        i < Len(m) /\ SubSeq(m, i, i + 1) = <<"reading", "'value'">>

DetectorFailedRead ==
    (detPc = "done" /\ dbRead.kind = "throws")
        => /\ verdict \in {"true", "false"}
           /\ verdict = "true" <=>
                  (dbRead.error.isTypeError /\ ContainsReadingValue(dbRead.error.message))

DetectorFailedReadWitness ==
    /\ detPc = "done" /\ dbRead.kind = "throws" /\ verdict = "true"
    /\ dbRead.error.isTypeError
    /\ dbRead.error.message = <<"'all'", "reading", "'value'">>

\* C10 (detector, empty log): on a read that returned the empty array, the
\* read of a log without entries, the verdict is false; the every-entry test,
\* true of no entries at all, is not what decides.
DetectorEmpty ==
    (detPc = "done" /\ dbRead.kind = "returns" /\ Len(dbRead.entries) = 0)
        => verdict = "false"

DetectorEmptyWitness ==
    /\ detPc = "done" /\ dbRead.kind = "returns" /\ Len(dbRead.entries) = 0
    /\ all = dbRead /\ verdict = "false"

\* C11 (no exception escapes the detector), as claimed: for every handle and
\* every outcome of its read the detector completes with a boolean, and
\* every failure other than the characteristic read failure (an error the
\* read throws, a missing handle, a result or an entry that cannot be
\* examined) yields false.
ExaminationFails(read) ==
    \/ read.kind \in {"nullish", "noevery"}
    \/ /\ read.kind = "returns"
       /\ \E k \in 1..Len(read.entries) :
              /\ read.entries[k].nullish
              /\ AllEntriesEncrypted(SubSeq(read.entries, 1, k - 1))

OtherFailure(read) ==
    \/ read.kind = "nohandle"
    \/ /\ read.kind = "throws"
       /\ ~(read.error.isTypeError /\ ContainsReadingValue(read.error.message))
    \/ ExaminationFails(read)

DetectorTotal ==
    detPc = "done" =>
        /\ verdict \in {"true", "false"}
        /\ OtherFailure(dbRead) => verdict = "false"

\* What holds of C11 whatever the read gives: no exception escapes, and
\* every failure other than the characteristic read failure yields false.
DetectorNoEscape ==
    detPc = "done" =>
        /\ verdict # "throws"
        /\ OtherFailure(dbRead) => verdict = "false"

\* C12 (counter independence): the counter of an object is 0 until the
\* object has had an encrypt call of its own, and a step changes the counter
\* of an object only when it is an encrypt call on that very object: the
\* encrypt and decrypt calls on one object leave the counter of every other
\* object unchanged, whether the objects hold the same password or not.
CallsOn(o) == {i \in CallIndices : calls[i].obj = o}

EncryptCallOn(o) ==
    /\ Len(calls') = Len(calls) + 1
    /\ calls'[Len(calls')].obj = o

CounterIndependence ==
    /\ [](\A o \in Objs : (alive[o] /\ CallsOn(o) = {}) => count[o] = 0)
    /\ [][\A o \in Objs : count'[o] # count[o] => EncryptCallOn(o)]_vars

\* Two objects built from the same password, one after two encrypt calls and
\* the other after none but a decrypt call.
CounterIndependenceWitness ==
    /\ alive["A"] /\ alive["B"]
    /\ password["A"] = password["B"]
    /\ count["A"] = 2
    /\ count["B"] = 0
    /\ last.op = "decrypt" /\ last.obj = "B"

\* C13 (decrypt is read-only): a decrypt call on an object, whether it
\* returns a plaintext, fails with invalid-argument or fails with the
\* engine's decryption failure, leaves every counter and every ivInterval as
\* it was, and for a byte sequence its outcome is exactly the outcome of
\* aes.decrypt for that value and the object's password, the engine's
\* failure included.
DecryptCall ==
    /\ last' # last
    /\ last'.op = "decrypt"

DecryptReadOnly ==
    [][DecryptCall =>
          /\ count' = count
          /\ ivInterval' = ivInterval
          /\ last'.outcome \in {"returned", "invalid-argument", "engine-failure"}
          /\ IsByteSequence(last'.arg) =>
                 LET r == AesDecrypt(last'.arg, password[last'.obj])
                 IN  /\ last'.outcome = r.outcome
                     /\ last'.value = r.value]_vars

\* A decrypt call that returned a plaintext, on an object whose counter an
\* encrypt call has moved to 1.
DecryptReadOnlyWitness ==
    /\ last.op = "decrypt"
    /\ last.outcome = "returned"
    /\ count[last.obj] = 1
    /\ ivInterval[last.obj] = IvInterval

====
